---- MODULE Spec2Model ----
(***************************************************************************)
(* Model of the flight-records store of src/main.py (class DBOperations):  *)
(* four SQLite tables (pilots, destinations, flights, pilot_assignments),  *)
(* the menu operations that change them, and the timestamp parsing the     *)
(* operations apply to their input.                                        *)
(*                                                                         *)
(* Store semantics taken from the source:                                  *)
(*  - get_connection() opens a plain sqlite3 connection and never issues   *)
(*    PRAGMA foreign_keys = ON, so the FOREIGN KEY clauses of the schema   *)
(*    are parsed but not enforced; UNIQUE, NOT NULL and CHECK are.         *)
(*  - INTEGER PRIMARY KEY without AUTOINCREMENT: a new row gets            *)
(*    max(rowid) + 1, or 1 in an empty table.                              *)
(*  - statements run in an implicit transaction; close() without commit()  *)
(*    discards them.                                                       *)
(* Text typed at a timestamp prompt is a sequence of one-character         *)
(* strings; every other text is an atomic string compared for equality.    *)
(***************************************************************************)
EXTENDS Integers, Sequences, FiniteSets, TLC

(***************************************************************************)
(* Bounds of the model.                                                    *)
(***************************************************************************)
\* ids the caller types are drawn from 1..MaxId, and an add is taken only
\* while the rowid it would get is at most MaxId
MaxId == 2

\* a run of the menu loop is followed while fewer than MaxCommits calls have
\* committed; no operation reads the count, so every operation is still
\* tried in every store MaxCommits commits reach
MaxCommits == 5

\* and while at most MaxAborted calls have ended without a commit (an error,
\* a refusal, "not found", nothing to do): such a call leaves the store as it
\* found it, so the calls after it start from a store already followed
MaxAborted == 0

(***************************************************************************)
(* datetime.strptime(s, "%Y-%m-%d %H:%M") and strftime("%Y-%m-%d %H:%M:%S") *)
(***************************************************************************)
DigitChars == <<"0", "1", "2", "3", "4", "5", "6", "7", "8", "9">>

IsDigit(c) == \E i \in 1..10 : DigitChars[i] = c

DigitVal(c) == (CHOOSE i \in 1..10 : DigitChars[i] = c) - 1

IsSpace(c) == c \in {" ", "\t"}

RECURSIVE NumVal(_)
NumVal(s) == IF s = <<>> THEN 0
             ELSE 10 * NumVal(SubSeq(s, 1, Len(s) - 1))
                  + (IF IsDigit(s[Len(s)]) THEN DigitVal(s[Len(s)]) ELSE 0)

\* %Y : \d\d\d\d
YearRe(s) == Len(s) = 4 /\ \A i \in 1..4 : IsDigit(s[i])

\* %m : 1[0-2]|0[1-9]|[1-9]
MonthRe(s) ==
    \/ Len(s) = 2 /\ s[1] = "1" /\ s[2] \in {"0", "1", "2"}
    \/ Len(s) = 2 /\ s[1] = "0" /\ IsDigit(s[2]) /\ s[2] # "0"
    \/ Len(s) = 1 /\ IsDigit(s[1]) /\ s[1] # "0"

\* %d : 3[0-1]|[1-2]\d|0[1-9]|[1-9]| [1-9]
DayRe(s) ==
    \/ Len(s) = 2 /\ s[1] = "3" /\ s[2] \in {"0", "1"}
    \/ Len(s) = 2 /\ s[1] \in {"1", "2"} /\ IsDigit(s[2])
    \/ Len(s) = 2 /\ s[1] \in {"0", " "} /\ IsDigit(s[2]) /\ s[2] # "0"
    \/ Len(s) = 1 /\ IsDigit(s[1]) /\ s[1] # "0"

\* %H : 2[0-3]|[0-1]\d|\d
HourRe(s) ==
    \/ Len(s) = 2 /\ s[1] = "2" /\ s[2] \in {"0", "1", "2", "3"}
    \/ Len(s) = 2 /\ s[1] \in {"0", "1"} /\ IsDigit(s[2])
    \/ Len(s) = 1 /\ IsDigit(s[1])

\* %M : [0-5]\d|\d
MinuteRe(s) ==
    \/ Len(s) = 2 /\ s[1] \in {"0", "1", "2", "3", "4", "5"} /\ IsDigit(s[2])
    \/ Len(s) = 1 /\ IsDigit(s[1])

\* the blank of the format : \s+
SpaceRe(s) == Len(s) >= 1 /\ \A i \in 1..Len(s) : IsSpace(s[i])

\* The ways s splits into year - month - day blank hour : minute with nothing
\* left over; a split is the lengths <<month, day, blank, hour, minute>>.
Splits(s) ==
    { l \in (1..2) \X (1..2) \X (1..Len(s)) \X (1..2) \X (1..2) :
        LET m0 == 6
            d0 == m0 + l[1] + 1
            w0 == d0 + l[2]
            h0 == w0 + l[3]
            n0 == h0 + l[4] + 1
        IN  /\ Len(s) = n0 + l[5] - 1
            /\ YearRe(SubSeq(s, 1, 4))
            /\ s[5] = "-"
            /\ MonthRe(SubSeq(s, m0, d0 - 2))
            /\ s[d0 - 1] = "-"
            /\ DayRe(SubSeq(s, d0, w0 - 1))
            /\ SpaceRe(SubSeq(s, w0, h0 - 1))
            /\ HourRe(SubSeq(s, h0, n0 - 2))
            /\ s[n0 - 1] = ":"
            /\ MinuteRe(SubSeq(s, n0, Len(s))) }

IsLeap(y) == (y % 4 = 0 /\ y % 100 # 0) \/ y % 400 = 0

DaysInMonth(y, m) ==
    IF m = 2 THEN (IF IsLeap(y) THEN 29 ELSE 28)
    ELSE IF m \in {4, 6, 9, 11} THEN 30 ELSE 31

\* the fields of the one split of s
Fields(s) ==
    LET l  == CHOOSE x \in Splits(s) : TRUE
        m0 == 6
        d0 == m0 + l[1] + 1
        w0 == d0 + l[2]
        h0 == w0 + l[3]
        n0 == h0 + l[4] + 1
    IN  [year   |-> NumVal(SubSeq(s, 1, 4)),
         month  |-> NumVal(SubSeq(s, m0, d0 - 2)),
         day    |-> NumVal(SubSeq(s, d0, w0 - 1)),
         hour   |-> NumVal(SubSeq(s, h0, n0 - 2)),
         minute |-> NumVal(SubSeq(s, n0, Len(s)))]

\* strptime raises ValueError when the text does not match the format, when
\* text is left over, or when the date does not exist
ParseFails(s) ==
    \/ Splits(s) = {}
    \/ Fields(s).year < 1
    \/ Fields(s).day > DaysInMonth(Fields(s).year, Fields(s).month)

strptime(s) == Fields(s)

Pad2(n) == DigitChars[((n \div 10) % 10) + 1] \o DigitChars[(n % 10) + 1]

Pad4(n) == Pad2(n \div 100) \o Pad2(n % 100)

\* strftime("%Y-%m-%d %H:%M:%S") of a parsed value (seconds are always 0)
strftime(dt) ==
    Pad4(dt.year) \o "-" \o Pad2(dt.month) \o "-" \o Pad2(dt.day) \o " "
        \o Pad2(dt.hour) \o ":" \o Pad2(dt.minute) \o ":00"

\* str.strip()
RECURSIVE LStrip(_)
LStrip(s) == IF s # <<>> /\ IsSpace(s[1]) THEN LStrip(Tail(s)) ELSE s

RECURSIVE RStrip(_)
RStrip(s) == IF s # <<>> /\ IsSpace(s[Len(s)])
             THEN RStrip(SubSeq(s, 1, Len(s) - 1)) ELSE s

Strip(s) == LStrip(RStrip(s))

\* the text has the shape YYYY-MM-DD HH:MM, digit for digit
StrictShape(s) ==
    /\ Len(s) = 16
    /\ \A i \in {1, 2, 3, 4, 6, 7, 9, 10, 12, 13, 15, 16} : IsDigit(s[i])
    /\ s[5] = "-" /\ s[8] = "-" /\ s[11] = " " /\ s[14] = ":"

\* int(text): the digits of the text, ValueError otherwise
IntFails(s) == Strip(s) = <<>> \/ \E i \in 1..Len(Strip(s)) : ~IsDigit(Strip(s)[i])

IntOf(s) == NumVal(Strip(s))

\* str(n) for the small numbers that appear in messages
Str(n) == IF n < 10 THEN DigitChars[n + 1] ELSE Pad2(n)

(***************************************************************************)
(* The store: one set of rows per table; the calls that committed and the  *)
(* calls that did not; the last call and the last line it printed.         *)
(***************************************************************************)
VARIABLES pilots, destinations, flights, pilot_assignments, commits, aborted, out,
          unclosed

store == <<pilots, destinations, flights, pilot_assignments>>

vars == <<pilots, destinations, flights, pilot_assignments, commits, aborted, out,
         unclosed>>

Statuses == {"Scheduled", "Cancelled", "Departed", "Arrived", "Delayed",
             "Boarding", "In Flight"}

\* the greatest element of a non-empty set of integers, found as the least of
\* the negated elements
Max(S) ==
    LET N == {0 - x : x \in S}
    IN  0 - (CHOOSE m \in N : \A y \in N : m <= y)

\* INTEGER PRIMARY KEY: the rowid of the next inserted row
NextRowid(ids) == IF ids = {} THEN 1 ELSE Max(ids) + 1

Ok(rows) == [ok |-> TRUE, rows |-> rows, err |-> ""]

Fail(rows, err) == [ok |-> FALSE, rows |-> rows, err |-> err]

\* InsertPilot with the UNIQUE of license_id dropped
InsertPilotNoUnique(tbl, p) ==
    [ok |-> TRUE, err |-> "",
     rows |-> tbl \cup {[pilot_id |-> NextRowid({r.pilot_id : r \in tbl}),
                         name |-> p[1], license_id |-> p[2],
                         years_experience |-> p[3]]}]

\* sql_insert_pilot under the constraints of sql_create_pilots
InsertPilot(tbl, p) ==
    IF \E r \in tbl : r.license_id = p[2]
    THEN Fail(tbl, "UNIQUE constraint failed: pilots.license_id")
    ELSE Ok(tbl \cup {[pilot_id |-> NextRowid({r.pilot_id : r \in tbl}),
                       name |-> p[1], license_id |-> p[2],
                       years_experience |-> p[3]]})

\* sql_insert_destination under the constraints of sql_create_destinations
InsertDestination(tbl, d) ==
    IF \E r \in tbl : r.city = d[1] /\ r.airport_code = d[3]
    THEN Fail(tbl, "UNIQUE constraint failed: destinations.city, destinations.airport_code")
    ELSE Ok(tbl \cup {[destination_id |-> NextRowid({r.destination_id : r \in tbl}),
                       city |-> d[1], country |-> d[2], airport_code |-> d[3]]})

\* InsertFlight with CHECK (origin_id <> destination_id) dropped
InsertFlightNoOriginCheck(tbl, f) ==
    [ok |-> f[5] \in Statuses,
     err |-> IF f[5] \in Statuses THEN "" ELSE "CHECK constraint failed: status IN (...)",
     rows |-> IF f[5] \notin Statuses THEN tbl
              ELSE tbl \cup {[flight_id |-> NextRowid({r.flight_id : r \in tbl}),
                              flight_number |-> f[1], origin_id |-> f[2],
                              destination_id |-> f[3], departure_time |-> f[4],
                              status |-> f[5]]}]

\* sql_insert_flight under the constraints of sql_create_flights; the
\* FOREIGN KEY clauses are not enforced on the connection
InsertFlight(tbl, f) ==
    IF f[5] \notin Statuses
    THEN Fail(tbl, "CHECK constraint failed: status IN (...)")
    ELSE IF f[2] = f[3]
    THEN Fail(tbl, "CHECK constraint failed: origin_id <> destination_id")
    ELSE Ok(tbl \cup {[flight_id |-> NextRowid({r.flight_id : r \in tbl}),
                       flight_number |-> f[1], origin_id |-> f[2],
                       destination_id |-> f[3], departure_time |-> f[4],
                       status |-> f[5]]})

\* InsertAssignment with UNIQUE(flight_id, pilot_id) dropped
InsertAssignmentNoUnique(tbl, a) ==
    [ok |-> TRUE, err |-> "",
     rows |-> tbl \cup {[assignment_id |-> NextRowid({r.assignment_id : r \in tbl}),
                         flight_id |-> a[1], pilot_id |-> a[2],
                         assignment_date |-> a[3]]}]

\* sql_insert_assignment under the constraints of sql_create_pilot_assignments;
\* the FOREIGN KEY clauses are not enforced on the connection
InsertAssignment(tbl, a) ==
    IF \E r \in tbl : r.flight_id = a[1] /\ r.pilot_id = a[2]
    THEN Fail(tbl, "UNIQUE constraint failed: pilot_assignments.flight_id, pilot_assignments.pilot_id")
    ELSE Ok(tbl \cup {[assignment_id |-> NextRowid({r.assignment_id : r \in tbl}),
                       flight_id |-> a[1], pilot_id |-> a[2],
                       assignment_date |-> a[3]]})

\* self.cur.execute(insert statement of the table, row)
Insert(table, tbl, row) ==
    CASE table = "pilots" -> InsertPilot(tbl, row)
      [] table = "destinations" -> InsertDestination(tbl, row)
      [] table = "flights" -> InsertFlight(tbl, row)
      [] table = "pilot_assignments" -> InsertAssignment(tbl, row)

\* "for row in rows: self.cur.execute(insert, row)": stops at the first error
RECURSIVE InsertEach(_, _, _)
InsertEach(table, tbl, rows) ==
    IF rows = <<>> THEN Ok(tbl)
    ELSE LET r == Insert(table, tbl, Head(rows))
         IN  IF r.ok THEN InsertEach(table, r.rows, Tail(rows)) ELSE r

\* what an operation printed: its last message and, for a report, the rows of
\* its query
Printed(op, msg) == [op |-> op, msg |-> msg, rows |-> {}]

Reported(op, rows) == [op |-> op, msg |-> "", rows |-> rows]

InvalidDatetime == "Invalid datetime format. Please use 'YYYY-MM-DD HH:MM'"

Init ==
    /\ pilots = {}
    /\ destinations = {}
    /\ flights = {}
    /\ pilot_assignments = {}
    /\ commits = 0
    /\ aborted = 0
    /\ out = Printed("__init__", "")
    /\ unclosed = 0

(***************************************************************************)
(* The rows of populate_sample_data, in the order it inserts them.        *)
(***************************************************************************)
SamplePilots == <<
    <<"James Smith", "UK10001", 15>>,
    <<"Jane Smith", "UK10002", 12>>,
    <<"Michael Scott", "UK10003", 8>>,
    <<"Tim Robinson", "UK10004", 20>>,
    <<"Taylor Swift", "UK10005", 10>>,
    <<"Matthew Fox", "UK10006", 7>>,
    <<"John Locke", "UK10007", 5>>,
    <<"Jim Halpert", "UK10008", 18>>,
    <<"Adam Scott", "UK10009", 25>>,
    <<"Travis Touchdown", "UK10010", 3>>,
    <<"Sarah Connor", "UK10011", 22>>,
    <<"Ellen Ripley", "UK10012", 19>>,
    <<"Han Solo", "UK10013", 30>>,
    <<"Cloud Strife", "UK10014", 15>>,
    <<"Luke Skywalker", "UK10015", 12>>>>

SampleDestinations == <<
    <<"London", "UK", "LHR">>,
    <<"Tokyo", "Japan", "HND">>,
    <<"Seoul", "Korea", "KIX">>,
    <<"Paris", "France", "CDG">>,
    <<"Berlin", "Germany", "BER">>,
    <<"New York", "USA", "JFK">>,
    <<"Dubai", "UAE", "DXB">>,
    <<"Sydney", "Australia", "SYD">>,
    <<"Toronto", "Canada", "YYZ">>,
    <<"Los Angeles", "USA", "LAX">>,
    <<"Singapore", "Singapore", "SIN">>,
    <<"Hong Kong", "China", "HKG">>,
    <<"Rome", "Italy", "FCO">>,
    <<"Madrid", "Spain", "MAD">>,
    <<"Cape Town", "South Africa", "CPT">>>>

SampleFlights == <<
    <<"BA101", 1, 2, "2025-03-10 10:00:00", "Scheduled">>,
    <<"BA102", 2, 1, "2025-03-10 14:00:00", "Scheduled">>,
    <<"BA103", 1, 3, "2025-03-11 09:00:00", "Scheduled">>,
    <<"BA104", 3, 4, "2025-03-12 12:00:00", "Scheduled">>,
    <<"BA105", 4, 5, "2025-03-13 15:00:00", "Scheduled">>,
    <<"BA106", 5, 6, "2025-03-14 08:00:00", "Scheduled">>,
    <<"BA107", 6, 7, "2025-03-15 11:00:00", "Scheduled">>,
    <<"BA108", 7, 8, "2025-03-16 13:00:00", "Scheduled">>,
    <<"BA109", 8, 9, "2025-03-17 16:00:00", "Scheduled">>,
    <<"BA110", 9, 10, "2025-03-18 18:00:00", "Scheduled">>,
    <<"BA111", 10, 11, "2025-03-19 07:00:00", "Scheduled">>,
    <<"BA112", 11, 12, "2025-03-20 09:00:00", "Scheduled">>,
    <<"BA113", 12, 13, "2025-03-21 11:00:00", "Scheduled">>,
    <<"BA114", 13, 14, "2025-03-22 13:00:00", "Scheduled">>,
    <<"BA115", 14, 15, "2025-03-23 15:00:00", "Scheduled">>>>

SampleAssignments == <<
    <<1, 1, "2025-02-01 10:00:00">>,
    <<1, 2, "2025-02-01 10:00:00">>,
    <<2, 3, "2025-02-02 14:00:00">>,
    <<3, 4, "2025-02-03 09:00:00">>,
    <<3, 5, "2025-03-03 09:00:00">>,
    <<4, 6, "2025-03-04 12:00:00">>,
    <<5, 7, "2025-03-05 15:00:00">>,
    <<6, 8, "2025-03-06 08:00:00">>,
    <<7, 9, "2025-03-07 11:00:00">>,
    <<8, 10, "2025-03-08 13:00:00">>,
    <<8, 1, "2025-03-08 13:00:00">>,
    <<9, 11, "2025-03-09 16:00:00">>,
    <<10, 12, "2025-03-10 18:00:00">>,
    <<11, 13, "2025-03-11 07:00:00">>,
    <<12, 14, "2025-03-12 09:00:00">>,
    <<12, 15, "2025-03-12 09:00:00">>>>

(***************************************************************************)
(* What the caller types.                                                  *)
(***************************************************************************)
\* "2025-06-01 10:00": the shape the prompt asks for
T_Canonical == <<"2", "0", "2", "5", "-", "0", "6", "-", "0", "1", " ", "1", "0", ":", "0", "0">>

\* "2025-6-1 9:5": month, day, hour and minute of one digit
T_Unpadded == <<"2", "0", "2", "5", "-", "6", "-", "1", " ", "9", ":", "5">>

\* "2025-06-01 10:00:00": seconds appended
T_Seconds == <<"2", "0", "2", "5", "-", "0", "6", "-", "0", "1", " ", "1", "0", ":", "0", "0", ":", "0", "0">>

\* "2025-02-30 10:00": the shape of the prompt, no such day
T_NoSuchDay == <<"2", "0", "2", "5", "-", "0", "2", "-", "3", "0", " ", "1", "0", ":", "0", "0">>

\* "soon": no timestamp at all
T_Word == <<"s", "o", "o", "n">>

\* " 2025-06-01 10:00": a blank before the timestamp
T_Padded == <<" ", "2", "0", "2", "5", "-", "0", "6", "-", "0", "1", " ", "1", "0", ":", "0", "0">>

\* " ": a blank only
T_Spaces == <<" ">>

\* "": nothing typed
T_Blank == <<>>

TimeInputs == {T_Canonical, T_Unpadded, T_Seconds, T_NoSuchDay, T_Word,
               T_Padded, T_Spaces, T_Blank}

\* the typed texts and what str.strip() leaves of them
TimeTexts == TimeInputs \cup {Strip(t) : t \in TimeInputs}

ValueError == "ValueError"

\* "strptime(text, fmt).strftime(fmt with seconds)" of the try blocks, for
\* every text of the model: the stored timestamp, or ValueError
Reformatted ==
    [t \in TimeTexts |-> IF ParseFails(t) THEN ValueError ELSE strftime(strptime(t))]

Stripped == [t \in TimeInputs |-> Strip(t)]

\* datetime.datetime.now().strftime("%Y-%m-%d %H:%M:%S"), read from the clock
Clock == {"2026-11-06 12:00:00"}

Ids == 1..MaxId

FlightNumbers == {"F1", "BA101"}

StatusInputs == {"Delayed", "Cancelled", "Bogus"}

Licenses == {"L1", "L2"}

\* a field of an update prompt: "" is "press enter to skip"
NameInputs == {"", "Q"}

LicenseInputs == {"", "L2"}

YearsInputs == {<<>>, <<"7">>, <<"x">>}

Cities == {"C1", "C2"}

CityInputs == {"", "C2"}

CountryInputs == {"", "Y"}

AirportInputs == {"", "A2"}

(***************************************************************************)
(* Lookups.                                                                *)
(***************************************************************************)
validate_flight_id_exists(flight_id) == \E f \in flights : f.flight_id = flight_id

\* validate_pilot_exists answering yes for every id
validate_pilot_exists_always(pilot_id) == TRUE

validate_pilot_exists(pilot_id) == \E p \in pilots : p.pilot_id = pilot_id

\* SELECT COUNT(*) FROM pilot_assignments WHERE pilot_id = ?
AssignmentCount(pilot_id) ==
    Cardinality({a \in pilot_assignments : a.pilot_id = pilot_id})

(***************************************************************************)
(* Operations.  Each is the whole handler: what it writes and commits, or  *)
(* the error it prints with the store left as it was (close() without      *)
(* commit() discards the statements of the call).                          *)
(***************************************************************************)
Started == commits < MaxCommits /\ aborted <= MaxAborted

Commit == commits' = commits + 1 /\ aborted' = aborted

NoCommit(op, msg) ==
    /\ out' = Printed(op, msg)
    /\ aborted' = aborted + 1
    /\ UNCHANGED <<pilots, destinations, flights, pilot_assignments, commits>>

\* "finally: self.conn.close()" at the end of an operation that called
\* get_connection() opened times: close() reaches the connection self.conn
\* names, the last one opened; a connection self.conn no longer names is left
\* to the collector, which may or may not have finalised it by the return
Closes(opened) == unclosed' \in 0..(opened - 1)

\* populate_sample_data with every insert kept as it is made: the rows
\* inserted before the failing one stay
populate_sample_data_partial ==
    LET p == InsertEach("pilots", pilots, SamplePilots)
        d == InsertEach("destinations", destinations, SampleDestinations)
        f == InsertEach("flights", flights, SampleFlights)
        a == InsertEach("pilot_assignments", pilot_assignments, SampleAssignments)
        e == IF ~p.ok THEN p.err ELSE IF ~d.ok THEN d.err
             ELSE IF ~f.ok THEN f.err ELSE a.err
    IN  /\ Started
        /\ Closes(1)
        /\ pilots' = p.rows
        /\ destinations' = IF p.ok THEN d.rows ELSE destinations
        /\ flights' = IF p.ok /\ d.ok THEN f.rows ELSE flights
        /\ pilot_assignments' = IF p.ok /\ d.ok /\ f.ok THEN a.rows
                                ELSE pilot_assignments
        /\ IF p.ok /\ d.ok /\ f.ok /\ a.ok
           THEN /\ Commit
                /\ out' = Printed("populate_sample_data",
                                  "Sample data populated successfully")
           ELSE /\ out' = Printed("populate_sample_data",
                                  "Error populating sample data: " \o e)
                /\ aborted' = aborted + 1
                /\ commits' = commits

populate_sample_data ==
    LET p == InsertEach("pilots", pilots, SamplePilots)
        d == InsertEach("destinations", destinations, SampleDestinations)
        f == InsertEach("flights", flights, SampleFlights)
        a == InsertEach("pilot_assignments", pilot_assignments, SampleAssignments)
        e == IF ~p.ok THEN p.err ELSE IF ~d.ok THEN d.err
             ELSE IF ~f.ok THEN f.err ELSE a.err
    IN  /\ Started
        /\ Closes(1)
        /\ IF p.ok /\ d.ok /\ f.ok /\ a.ok
           THEN /\ pilots' = p.rows
                /\ destinations' = d.rows
                /\ flights' = f.rows
                /\ pilot_assignments' = a.rows
                /\ Commit
                /\ out' = Printed("populate_sample_data",
                                  "Sample data populated successfully")
           ELSE NoCommit("populate_sample_data",
                         "Error populating sample data: " \o e)

\* add_new_flight going on to the insert with the text as typed when it does
\* not parse
add_new_flight_unvalidated(flight_num, origin_id, dest_id, departure) ==
    /\ Started
    /\ Closes(1)
    /\ NextRowid({f.flight_id : f \in flights}) <= MaxId
    /\ LET r == InsertFlight(flights,
                    <<flight_num, origin_id, dest_id,
                      IF Reformatted[departure] = ValueError THEN "(as typed)"
                      ELSE Reformatted[departure], "Scheduled">>)
       IN  IF r.ok
           THEN /\ flights' = r.rows
                /\ Commit
                /\ out' = Printed("add_new_flight", "Flight added successfully")
                /\ UNCHANGED <<pilots, destinations, pilot_assignments>>
           ELSE NoCommit("add_new_flight", "Error adding flight: " \o r.err)

add_new_flight(flight_num, origin_id, dest_id, departure) ==
    /\ Started
    /\ Closes(1)
    /\ NextRowid({f.flight_id : f \in flights}) <= MaxId
    /\ IF Reformatted[departure] = ValueError
       THEN NoCommit("add_new_flight", InvalidDatetime)
       ELSE LET r == InsertFlight(flights,
                        <<flight_num, origin_id, dest_id,
                          Reformatted[departure], "Scheduled">>)
            IN  IF r.ok
                THEN /\ flights' = r.rows
                     /\ Commit
                     /\ out' = Printed("add_new_flight", "Flight added successfully")
                     /\ UNCHANGED <<pilots, destinations, pilot_assignments>>
                ELSE NoCommit("add_new_flight", "Error adding flight: " \o r.err)

\* UPDATE flights SET departure_time = ? WHERE flight_number = ?
SetDeparture(flight_num, t) ==
    {IF f.flight_number = flight_num THEN [f EXCEPT !.departure_time = t] ELSE f
        : f \in flights}

\* UPDATE flights SET status = ? WHERE flight_number = ?
SetStatus(flight_num, st) ==
    {IF f.flight_number = flight_num THEN [f EXCEPT !.status = st] ELSE f
        : f \in flights}

Matching(flight_num) == {f \in flights : f.flight_number = flight_num}

\* update_flight_info with the CHECK on status dropped from the UPDATE
update_flight_info_unchecked(flight_num, choice, new_time, new_status) ==
    /\ Started
    /\ Closes(1)
    /\ IF choice = 1 /\ Reformatted[new_time] = ValueError
       THEN NoCommit("update_flight_info", InvalidDatetime)
       ELSE IF choice \in {1, 2} /\ Matching(flight_num) # {}
       THEN /\ flights' = IF choice = 1
                          THEN SetDeparture(flight_num, Reformatted[new_time])
                          ELSE SetStatus(flight_num, new_status)
            /\ Commit
            /\ out' = Printed("update_flight_info", "Flight updated successfully")
            /\ UNCHANGED <<pilots, destinations, pilot_assignments>>
       ELSE NoCommit("update_flight_info", "Flight not found")

\* choice 1 takes a departure time, choice 2 a status, any other choice
\* executes nothing and reads the rowcount -1 of the fresh cursor
update_flight_info(flight_num, choice, new_time, new_status) ==
    /\ Started
    /\ Closes(1)
    /\ IF choice = 1 /\ Reformatted[new_time] = ValueError
       THEN NoCommit("update_flight_info", InvalidDatetime)
       ELSE IF choice = 2 /\ Matching(flight_num) # {} /\ new_status \notin Statuses
       THEN NoCommit("update_flight_info",
                     "Error updating flight: CHECK constraint failed: status IN (...)")
       ELSE IF choice \in {1, 2} /\ Matching(flight_num) # {}
       THEN /\ flights' = IF choice = 1
                          THEN SetDeparture(flight_num, Reformatted[new_time])
                          ELSE SetStatus(flight_num, new_status)
            /\ Commit
            /\ out' = Printed("update_flight_info", "Flight updated successfully")
            /\ UNCHANGED <<pilots, destinations, pilot_assignments>>
       ELSE NoCommit("update_flight_info", "Flight not found")

assign_pilot(flight_id, pilot_id, typed, now) ==
    /\ Started
    /\ Closes(IF validate_flight_id_exists(flight_id) THEN 3 ELSE 2)
    /\ NextRowid({a.assignment_id : a \in pilot_assignments}) <= MaxId
    /\ IF ~validate_flight_id_exists(flight_id)
       THEN NoCommit("assign_pilot",
                     "Error: Flight with ID " \o Str(flight_id) \o " does not exist")
       ELSE IF ~validate_pilot_exists(pilot_id)
       THEN NoCommit("assign_pilot",
                     "Error: Pilot with ID " \o Str(pilot_id) \o " does not exist")
       ELSE LET assignment_date == Stripped[typed]
            IN  IF assignment_date # <<>> /\ Reformatted[assignment_date] = ValueError
                THEN NoCommit("assign_pilot", InvalidDatetime)
                ELSE LET r == InsertAssignment(pilot_assignments,
                                <<flight_id, pilot_id,
                                  IF assignment_date = <<>> THEN now
                                  ELSE Reformatted[assignment_date]>>)
                     IN  IF r.ok
                         THEN /\ pilot_assignments' = r.rows
                              /\ Commit
                              /\ out' = Printed("assign_pilot",
                                                "Pilot assigned successfully")
                              /\ UNCHANGED <<pilots, destinations, flights>>
                         ELSE NoCommit("assign_pilot",
                                       "Error assigning pilot: " \o r.err)

\* delete_flight removing only the matching row of least flight_id
delete_flight_first_match(flight_num) ==
    /\ Started
    /\ Closes(1)
    /\ IF Matching(flight_num) # {}
       THEN /\ flights' = {f \in flights :
                              \/ f.flight_number # flight_num
                              \/ \E g \in Matching(flight_num) :
                                     g.flight_id < f.flight_id}
            /\ Commit
            /\ out' = Printed("delete_flight", "Flight deleted successfully")
            /\ UNCHANGED <<pilots, destinations, pilot_assignments>>
       ELSE NoCommit("delete_flight", "Flight not found")

delete_flight(flight_num) ==
    /\ Started
    /\ Closes(1)
    /\ IF Matching(flight_num) # {}
       THEN /\ flights' = flights \ Matching(flight_num)
            /\ Commit
            /\ out' = Printed("delete_flight", "Flight deleted successfully")
            /\ UNCHANGED <<pilots, destinations, pilot_assignments>>
       ELSE NoCommit("delete_flight", "Flight not found")

delete_pilot_assignment(assignment_id) ==
    /\ Started
    /\ Closes(1)
    /\ IF \E a \in pilot_assignments : a.assignment_id = assignment_id
       THEN /\ pilot_assignments' =
                {a \in pilot_assignments : a.assignment_id # assignment_id}
            /\ Commit
            /\ out' = Printed("delete_pilot_assignment",
                              "Assignment deleted successfully")
            /\ UNCHANGED <<pilots, destinations, flights>>
       ELSE NoCommit("delete_pilot_assignment", "Assignment not found")

\* choice 2 of manage_pilots
add_pilot(name, license_id, years_exp) ==
    IF IntFails(years_exp)
    THEN NoCommit("manage_pilots.add",
                  "Error managing pilots: invalid literal for int()")
    ELSE LET r == InsertPilot(pilots, <<name, license_id, IntOf(years_exp)>>)
         IN  IF r.ok
             THEN /\ pilots' = r.rows
                  /\ Commit
                  /\ out' = Printed("manage_pilots.add", "Pilot added successfully")
                  /\ UNCHANGED <<destinations, flights, pilot_assignments>>
             ELSE NoCommit("manage_pilots.add", "Error managing pilots: " \o r.err)

\* UpdatedPilot writing every column, the skipped ones with what was typed
UpdatedPilotOverwrite(r, name, license_id, years_exp) ==
    [r EXCEPT !.name = name,
              !.license_id = IF license_id # "" THEN license_id ELSE @,
              !.years_experience = IntOf(years_exp)]

\* the row after "UPDATE pilots SET <the fields typed> WHERE pilot_id = ?"
UpdatedPilot(r, name, license_id, years_exp) ==
    [r EXCEPT !.name = IF name # "" THEN name ELSE @,
              !.license_id = IF license_id # "" THEN license_id ELSE @,
              !.years_experience = IF years_exp # <<>> THEN IntOf(years_exp) ELSE @]

\* choice 3 of manage_pilots
update_pilot(pilot_id, name, license_id, years_exp) ==
    IF years_exp # <<>> /\ IntFails(years_exp)
    THEN NoCommit("manage_pilots.update",
                  "Error managing pilots: invalid literal for int()")
    ELSE IF name = "" /\ license_id = "" /\ years_exp = <<>>
    THEN NoCommit("manage_pilots.update", "")
    ELSE IF /\ license_id # ""
            /\ \E r \in pilots : r.pilot_id = pilot_id
            /\ \E o \in pilots : o.pilot_id # pilot_id /\ o.license_id = license_id
    THEN NoCommit("manage_pilots.update",
                  "Error managing pilots: UNIQUE constraint failed: pilots.license_id")
    ELSE /\ pilots' = {IF r.pilot_id = pilot_id
                       THEN UpdatedPilot(r, name, license_id, years_exp) ELSE r
                          : r \in pilots}
         /\ Commit
         /\ out' = Printed("manage_pilots.update", "Pilot updated successfully")
         /\ UNCHANGED <<destinations, flights, pilot_assignments>>

RefusedDelete(n) ==
    "Can not delete pilot as they have " \o Str(n)
        \o " flight assignments. Delete these assignments first."

\* delete_pilot without the count of the pilot's assignments
delete_pilot_unguarded(pilot_id) ==
    IF \E r \in pilots : r.pilot_id = pilot_id
    THEN /\ pilots' = {r \in pilots : r.pilot_id # pilot_id}
         /\ Commit
         /\ out' = Printed("manage_pilots.delete", "Pilot deleted successfully")
         /\ UNCHANGED <<destinations, flights, pilot_assignments>>
    ELSE NoCommit("manage_pilots.delete", "Pilot not found")

\* choice 4 of manage_pilots
delete_pilot(pilot_id) ==
    IF AssignmentCount(pilot_id) > 0
    THEN NoCommit("manage_pilots.delete", RefusedDelete(AssignmentCount(pilot_id)))
    ELSE IF \E r \in pilots : r.pilot_id = pilot_id
    THEN /\ pilots' = {r \in pilots : r.pilot_id # pilot_id}
         /\ Commit
         /\ out' = Printed("manage_pilots.delete", "Pilot deleted successfully")
         /\ UNCHANGED <<destinations, flights, pilot_assignments>>
    ELSE NoCommit("manage_pilots.delete", "Pilot not found")

manage_pilots(choice, pilot_id, name, license_id, years_exp) ==
    /\ Started
    /\ Closes(1)
    /\ choice = 2 => NextRowid({r.pilot_id : r \in pilots}) <= MaxId
    /\ CASE choice = 2 -> add_pilot(name, license_id, years_exp)
         [] choice = 3 -> update_pilot(pilot_id, name, license_id, years_exp)
         [] choice = 4 -> delete_pilot(pilot_id)

\* choice 2 of manage_destinations
add_destination(city, country, airport_code) ==
    LET r == InsertDestination(destinations, <<city, country, airport_code>>)
    IN  IF r.ok
        THEN /\ destinations' = r.rows
             /\ Commit
             /\ out' = Printed("manage_destinations.add",
                               "Destination added successfully")
             /\ UNCHANGED <<pilots, flights, pilot_assignments>>
        ELSE NoCommit("manage_destinations.add",
                      "Error managing destinations: " \o r.err)

\* the row after "UPDATE destinations SET <the fields typed> WHERE destination_id = ?"
UpdatedDestination(r, city, country, airport_code) ==
    [r EXCEPT !.city = IF city # "" THEN city ELSE @,
              !.country = IF country # "" THEN country ELSE @,
              !.airport_code = IF airport_code # "" THEN airport_code ELSE @]

\* choice 3 of manage_destinations
update_destination(dest_id, city, country, airport_code) ==
    IF city = "" /\ country = "" /\ airport_code = ""
    THEN NoCommit("manage_destinations.update", "")
    ELSE IF \E r \in destinations :
                /\ r.destination_id = dest_id
                /\ \E o \in destinations :
                      /\ o.destination_id # dest_id
                      /\ o.city = UpdatedDestination(r, city, country, airport_code).city
                      /\ o.airport_code =
                            UpdatedDestination(r, city, country, airport_code).airport_code
    THEN NoCommit("manage_destinations.update",
                  "Error managing destinations: UNIQUE constraint failed: destinations.city, destinations.airport_code")
    ELSE /\ destinations' = {IF r.destination_id = dest_id
                             THEN UpdatedDestination(r, city, country, airport_code)
                             ELSE r : r \in destinations}
         /\ Commit
         /\ out' = Printed("manage_destinations.update",
                           "Destination updated successfully")
         /\ UNCHANGED <<pilots, flights, pilot_assignments>>

manage_destinations(choice, dest_id, city, country, airport_code) ==
    /\ Started
    /\ Closes(1)
    /\ choice = 2 => NextRowid({r.destination_id : r \in destinations}) <= MaxId
    /\ CASE choice = 2 -> add_destination(city, country, airport_code)
         [] choice = 3 -> update_destination(dest_id, city, country, airport_code)

(***************************************************************************)
(* The reports. A row of a LEFT JOIN carries, for each joined table, the   *)
(* set of the one row matched or the empty set where SQL has NULLs. The    *)
(* rows a report prints are kept as a set: ORDER BY ... DESC leaves the    *)
(* order of equal counts open.                                             *)
(***************************************************************************)
\* pilots p JOIN pilot_assignments pa JOIN flights f: pilots without an
\* assignment are dropped
PilotJoinInner ==
    UNION {UNION {{[p |-> p, pa |-> {a}, f |-> {x}]
                     : x \in {f \in flights : f.flight_id = a.flight_id}}
                     : a \in {a \in pilot_assignments : a.pilot_id = p.pilot_id}}
              : p \in pilots}

\* FROM pilots p LEFT JOIN pilot_assignments pa ON p.pilot_id = pa.pilot_id
\*               LEFT JOIN flights f ON pa.flight_id = f.flight_id
PilotJoin ==
    UNION {LET PA == {a \in pilot_assignments : a.pilot_id = p.pilot_id}
           IN  IF PA = {} THEN {[p |-> p, pa |-> {}, f |-> {}]}
               ELSE UNION {LET F == {f \in flights : f.flight_id = a.flight_id}
                           IN  IF F = {} THEN {[p |-> p, pa |-> {a}, f |-> {}]}
                               ELSE {[p |-> p, pa |-> {a}, f |-> {x}] : x \in F}
                              : a \in PA}
              : p \in pilots}

\* GROUP BY p.pilot_id, p.name, p.license_id with COUNT(pa.flight_id); the
\* upcoming_flights column, which compares with the clock, is left out
PilotFlightCounts ==
    {[pilot_id |-> g[1], name |-> g[2], license_id |-> g[3],
      flight_count |->
          Cardinality({j \in PilotJoin :
                          /\ <<j.p.pilot_id, j.p.name, j.p.license_id>> = g
                          /\ j.pa # {}})]
        : g \in {<<j.p.pilot_id, j.p.name, j.p.license_id>> : j \in PilotJoin}}

\* a report executes one SELECT, prints its rows and commits nothing
Report(op, rows) ==
    /\ out' = Reported(op, rows)
    /\ aborted' = aborted + 1
    /\ UNCHANGED <<pilots, destinations, flights, pilot_assignments, commits>>

get_pilot_flight_count ==
    /\ Started
    /\ Closes(1)
    /\ Report("get_pilot_flight_count", PilotFlightCounts)

\* FROM destinations d LEFT JOIN flights f ON d.destination_id = f.destination_id
\*                     LEFT JOIN pilot_assignments pa ON f.flight_id = pa.flight_id
\*                     LEFT JOIN pilots p ON pa.pilot_id = p.pilot_id
DestinationJoin ==
    UNION {LET F == {f \in flights : f.destination_id = d.destination_id}
           IN  IF F = {} THEN {[d |-> d, f |-> {}, pa |-> {}, p |-> {}]}
               ELSE UNION {LET PA == {a \in pilot_assignments : a.flight_id = f.flight_id}
                           IN  IF PA = {}
                               THEN {[d |-> d, f |-> {f}, pa |-> {}, p |-> {}]}
                               ELSE {[d |-> d, f |-> {f}, pa |-> {a},
                                      p |-> {p \in pilots : p.pilot_id = a.pilot_id}]
                                        : a \in PA}
                              : f \in F}
              : d \in destinations}

\* GROUP BY d.city, d.country with COUNT(f.flight_id), COUNT(DISTINCT
\* p.pilot_id) and the two COUNT(CASE WHEN f.status = ... THEN 1 END)
DestinationStatistics ==
    {LET G == {j \in DestinationJoin : <<j.d.city, j.d.country>> = g}
     IN  [city |-> g[1], country |-> g[2],
          total_flights |-> Cardinality({j \in G : j.f # {}}),
          unique_pilots |-> Cardinality(UNION {{p.pilot_id : p \in j.p} : j \in G}),
          delayed_flights |->
              Cardinality({j \in G : \E f \in j.f : f.status = "Delayed"}),
          cancelled_flights |->
              Cardinality({j \in G : \E f \in j.f : f.status = "Cancelled"})]
        : g \in {<<j.d.city, j.d.country>> : j \in DestinationJoin}}

get_destination_statistics ==
    /\ Started
    /\ Closes(1)
    /\ Report("get_destination_statistics", DestinationStatistics)

(***************************************************************************)
(* The calls the model makes: for every operation a base call and the      *)
(* calls that differ from it in one argument, so that every branch of the  *)
(* handler is taken without the full product of the argument sets.         *)
(***************************************************************************)
AddFlightCalls ==
    {<<n, 1, 2, T_Canonical>> : n \in FlightNumbers}
        \cup {<<"F1", 1, d, T_Canonical>> : d \in Ids}
        \cup {<<"F1", 1, 2, t>> : t \in TimeInputs}

UpdateFlightCalls ==
    {<<n, 1, T_Canonical, "">> : n \in FlightNumbers}
        \cup {<<"F1", 1, t, "">> : t \in TimeInputs}
        \cup {<<n, 2, <<>>, st>> : n \in FlightNumbers, st \in StatusInputs}
        \cup {<<"F1", 3, <<>>, "">>}

AssignCalls ==
    {<<f, p, T_Blank>> : f \in Ids, p \in Ids}
        \cup {<<1, 1, t>> : t \in TimeInputs}

AddPilotCalls ==
    {<<"P", l, <<"1">>>> : l \in Licenses} \cup {<<"P", "L1", <<"x">>>>}

PilotFields ==
    {<<n, "", <<>>>> : n \in NameInputs}
        \cup {<<"", l, <<"7">>>> : l \in LicenseInputs \ {""}}
        \cup {<<"", "", y>> : y \in YearsInputs \ {<<"7">>}}

\* update_pilot: one call for every id, and every choice of typed fields for
\* one id
UpdatePilotCalls ==
    {<<p, "Q", "", <<>>>> : p \in Ids}
        \cup {<<1, c[1], c[2], c[3]>> : c \in PilotFields}

AddDestinationCalls == {<<c, "X", "A1">> : c \in Cities}

DestinationFields ==
    {<<c, "", "">> : c \in CityInputs}
        \cup {<<"", k, a>> : k \in CountryInputs \ {""}, a \in AirportInputs \ {""}}

\* update_destination: one call for every id, and every choice of typed
\* fields for one id
UpdateDestinationCalls ==
    {<<d, "C2", "", "">> : d \in Ids}
        \cup {<<1, c[1], c[2], c[3]>> : c \in DestinationFields}

Next ==
    \/ populate_sample_data
    \/ \E c \in AddFlightCalls : add_new_flight(c[1], c[2], c[3], c[4])
    \/ \E c \in UpdateFlightCalls : update_flight_info(c[1], c[2], c[3], c[4])
    \/ \E c \in AssignCalls, now \in Clock : assign_pilot(c[1], c[2], c[3], now)
    \/ \E n \in FlightNumbers : delete_flight(n)
    \/ \E a \in Ids : delete_pilot_assignment(a)
    \/ \E c \in AddPilotCalls : manage_pilots(2, 0, c[1], c[2], c[3])
    \/ \E c \in UpdatePilotCalls : manage_pilots(3, c[1], c[2], c[3], c[4])
    \/ \E p \in Ids : manage_pilots(4, p, "", "", <<>>)
    \/ \E c \in AddDestinationCalls : manage_destinations(2, 0, c[1], c[2], c[3])
    \/ \E c \in UpdateDestinationCalls :
          manage_destinations(3, c[1], c[2], c[3], c[4])
    \/ get_pilot_flight_count
    \/ get_destination_statistics

Spec == Init /\ [][Next]_vars

(***************************************************************************)
(* Properties.                                                             *)
(***************************************************************************)
PilotIds == {r.pilot_id : r \in pilots}

DestinationIds == {r.destination_id : r \in destinations}

FlightIds == {r.flight_id : r \in flights}

UniqueAssignmentFailed ==
    "Error assigning pilot: UNIQUE constraint failed: pilot_assignments.flight_id, pilot_assignments.pilot_id"

UniqueLicenseFailed ==
    "Error managing pilots: UNIQUE constraint failed: pilots.license_id"

OriginCheckFailed ==
    "Error adding flight: CHECK constraint failed: origin_id <> destination_id"

\* the step just taken is a call of the operation op: every operation ends
\* by recording its name and the message it printed
Ran(op) == out'.op = op

\* C1: in every reachable state the flight id of every assignment row is the
\* id of a flight in the flights table.
C1_AssignmentFlightExists ==
    \A a \in pilot_assignments : a.flight_id \in FlightIds

\* C2: delete_pilot on an existing pilot with N > 0 assignment rows is
\* refused with the message naming N, the pilot row stays and no table
\* changes; on an existing pilot with no assignment row left it succeeds, the
\* pilot row is gone and nothing else changes.
C2_GuardedPilotDelete ==
    [][Ran("manage_pilots.delete") =>
          \A p \in Ids :
             p \in PilotIds /\ manage_pilots(4, p, "", "", <<>>) =>
                IF AssignmentCount(p) > 0
                THEN /\ out'.msg = RefusedDelete(AssignmentCount(p))
                     /\ p \in PilotIds'
                     /\ UNCHANGED store
                ELSE /\ out'.msg = "Pilot deleted successfully"
                     /\ pilots' = {r \in pilots : r.pilot_id # p}
                     /\ UNCHANGED <<destinations, flights, pilot_assignments>>]_vars

\* C2 witness: a delete_pilot was just refused for a pilot that is in the
\* store and has assignment rows.
C2_Witness ==
    /\ out.op = "manage_pilots.delete"
    /\ \E p \in PilotIds :
          AssignmentCount(p) > 0 /\ out.msg = RefusedDelete(AssignmentCount(p))

\* C3: no two assignment rows have the same (flight_id, pilot_id), and an
\* assign_pilot for a pair that already has a row is rejected with the
\* store's error and leaves the assignment table as it was.
C3_NoDuplicateAssignment ==
    /\ [](Cardinality({<<a.flight_id, a.pilot_id>> : a \in pilot_assignments})
             = Cardinality(pilot_assignments))
    /\ [][Ran("assign_pilot") =>
             \A c \in AssignCalls, now \in Clock :
                /\ c[1] \in FlightIds /\ c[2] \in PilotIds
                /\ \E a \in pilot_assignments : a.flight_id = c[1] /\ a.pilot_id = c[2]
                /\ assign_pilot(c[1], c[2], c[3], now)
                => /\ out'.msg \in {UniqueAssignmentFailed, InvalidDatetime}
                   /\ pilot_assignments' = pilot_assignments]_vars

\* C3 witness: the second assign_pilot of a pair was just rejected and the
\* pair has its one row.
C3_Witness ==
    /\ out = Printed("assign_pilot", UniqueAssignmentFailed)
    /\ \E a \in pilot_assignments : a.flight_id \in FlightIds /\ a.pilot_id \in PilotIds

\* the timestamp texts an operation rejects: add_new_flight and
\* update_flight_info those strptime cannot parse, assign_pilot those that are
\* not blank once stripped and that strptime cannot parse
Rejected(op, t) ==
    IF op = "assign_pilot"
    THEN Stripped[t] # <<>> /\ Reformatted[Stripped[t]] = ValueError
    ELSE Reformatted[t] = ValueError

\* C4 as stated: add_flight, assign_pilot (for a flight and a pilot that
\* exist) and update_flight called with a text that does not have the shape
\* YYYY-MM-DD HH:MM print the format error and leave every table unchanged.
C4_AsStated ==
    [][/\ Ran("add_new_flight") =>
             \A c \in AddFlightCalls :
                ~StrictShape(c[4]) /\ add_new_flight(c[1], c[2], c[3], c[4])
                => out'.msg = InvalidDatetime /\ UNCHANGED store
       /\ Ran("update_flight_info") =>
             \A c \in UpdateFlightCalls :
                /\ c[2] = 1 /\ ~StrictShape(c[3])
                /\ update_flight_info(c[1], c[2], c[3], c[4])
                => out'.msg = InvalidDatetime /\ UNCHANGED store
       /\ Ran("assign_pilot") =>
             \A c \in AssignCalls, now \in Clock :
                /\ c[1] \in FlightIds /\ c[2] \in PilotIds
                /\ ~StrictShape(c[3])
                /\ assign_pilot(c[1], c[2], c[3], now)
                => out'.msg = InvalidDatetime /\ UNCHANGED store]_vars

\* C4 as amended: add_flight and update_flight called with a text strptime
\* cannot parse under %Y-%m-%d %H:%M, and assign_pilot (for a flight and a
\* pilot that exist) called with a text that is not blank once stripped and
\* that strptime cannot parse, print the format error and leave every table
\* unchanged.
C4_FormatErrorLeavesStore ==
    [][/\ Ran("add_new_flight") =>
             \A c \in AddFlightCalls :
                /\ Rejected("add_new_flight", c[4])
                /\ add_new_flight(c[1], c[2], c[3], c[4])
                => out'.msg = InvalidDatetime /\ UNCHANGED store
       /\ Ran("update_flight_info") =>
             \A c \in UpdateFlightCalls :
                /\ c[2] = 1 /\ Rejected("update_flight_info", c[3])
                /\ update_flight_info(c[1], c[2], c[3], c[4])
                => out'.msg = InvalidDatetime /\ UNCHANGED store
       /\ Ran("assign_pilot") =>
             \A c \in AssignCalls, now \in Clock :
                /\ c[1] \in FlightIds /\ c[2] \in PilotIds
                /\ Rejected("assign_pilot", c[3])
                /\ assign_pilot(c[1], c[2], c[3], now)
                => out'.msg = InvalidDatetime /\ UNCHANGED store]_vars

\* C4 witness: assign_pilot for a flight and a pilot that exist just printed
\* the format error.
C4_Witness ==
    /\ out = Printed("assign_pilot", InvalidDatetime)
    /\ FlightIds # {} /\ PilotIds # {}

\* C5: no flight has its origin equal to its destination, and add_flight
\* with origin = destination prints an error and leaves the flights table as
\* it was.
C5_OriginDiffersFromDestination ==
    /\ [](\A f \in flights : f.origin_id # f.destination_id)
    /\ [][Ran("add_new_flight") =>
             \A c \in AddFlightCalls :
                c[2] = c[3] /\ add_new_flight(c[1], c[2], c[3], c[4])
                => /\ out'.msg \in {OriginCheckFailed, InvalidDatetime}
                   /\ flights' = flights]_vars

\* C5 witness: an add_flight with origin = destination was just rejected by
\* the CHECK of the table.
C5_Witness == out = Printed("add_new_flight", OriginCheckFailed)

\* C6: in every reachable state the origin and the destination of every
\* flight are ids of rows of the destinations table.
C6_FlightDestinationsExist ==
    \A f \in flights :
        f.origin_id \in DestinationIds /\ f.destination_id \in DestinationIds

\* C7: in every reachable state the pilot id of every assignment row is the
\* id of a pilot in the pilots table.
C7_AssignmentPilotExists ==
    \A a \in pilot_assignments : a.pilot_id \in PilotIds

\* C8: assign_pilot with a flight id of no flight, or (the flight existing)
\* with a pilot id of no pilot, prints the validation error naming that id
\* and leaves every table unchanged.
C8_AssignValidatesIds ==
    [][Ran("assign_pilot") =>
          \A c \in AssignCalls, now \in Clock :
             /\ c[1] \notin FlightIds \/ c[2] \notin PilotIds
             /\ assign_pilot(c[1], c[2], c[3], now)
             =>
                /\ c[1] \notin FlightIds =>
                      /\ out'.msg = "Error: Flight with ID " \o Str(c[1]) \o " does not exist"
                      /\ UNCHANGED store
                /\ c[1] \in FlightIds /\ c[2] \notin PilotIds =>
                      /\ out'.msg = "Error: Pilot with ID " \o Str(c[2]) \o " does not exist"
                      /\ UNCHANGED store]_vars

\* C8 witness: assign_pilot for a flight that exists was just rejected for
\* its pilot id.
C8_Witness ==
    /\ out.op = "assign_pilot"
    /\ \E f \in FlightIds, p \in Ids \ PilotIds :
          out.msg = "Error: Pilot with ID " \o Str(p) \o " does not exist"

\* C9: no two pilots have the same license id; add_pilot with a license id
\* in use, and update_pilot of an existing pilot to a license id another
\* pilot holds, print an error and leave the pilots table as it was.
C9_LicenseUnique ==
    /\ [](Cardinality({r.license_id : r \in pilots}) = Cardinality(pilots))
    /\ [][/\ Ran("manage_pilots.add") =>
                \A c \in AddPilotCalls :
                   /\ \E r \in pilots : r.license_id = c[2]
                   /\ manage_pilots(2, 0, c[1], c[2], c[3])
                   => /\ out'.msg \in {UniqueLicenseFailed,
                                       "Error managing pilots: invalid literal for int()"}
                      /\ pilots' = pilots
          /\ Ran("manage_pilots.update") =>
                \A c \in UpdatePilotCalls :
                   /\ c[1] \in PilotIds
                   /\ \E r \in pilots : r.pilot_id # c[1] /\ r.license_id = c[3]
                   /\ manage_pilots(3, c[1], c[2], c[3], c[4])
                   => /\ out'.msg \in {UniqueLicenseFailed,
                                       "Error managing pilots: invalid literal for int()"}
                      /\ pilots' = pilots]_vars

\* C9 witness: an update_pilot to another pilot's license id was just
\* rejected.
C9_Witness ==
    /\ out = Printed("manage_pilots.update", UniqueLicenseFailed)
    /\ Cardinality(pilots) >= 2

\* the rows other than the one with the given id
OtherPilots(tbl, id) == {r \in tbl : r.pilot_id # id}

OtherDestinations(tbl, id) == {r \in tbl : r.destination_id # id}

\* C10: update_pilot and update_destination leave every other row and every
\* other table unchanged and, on the row with the given id, the fields that
\* were not typed; after a successful update the typed fields have the typed
\* values; with no field typed nothing is written or committed and no error
\* is printed.
C10_PartialUpdate ==
    [][/\ Ran("manage_pilots.update") =>
          \A c \in UpdatePilotCalls :
             manage_pilots(3, c[1], c[2], c[3], c[4]) =>
                /\ UNCHANGED <<destinations, flights, pilot_assignments>>
                /\ OtherPilots(pilots', c[1]) = OtherPilots(pilots, c[1])
                /\ \A r \in pilots : r.pilot_id = c[1] =>
                      \E n \in pilots' :
                         /\ n.pilot_id = c[1]
                         /\ c[2] = "" => n.name = r.name
                         /\ c[3] = "" => n.license_id = r.license_id
                         /\ c[4] = <<>> => n.years_experience = r.years_experience
                         /\ out'.msg = "Pilot updated successfully" =>
                               /\ c[2] # "" => n.name = c[2]
                               /\ c[3] # "" => n.license_id = c[3]
                               /\ c[4] # <<>> => n.years_experience = IntOf(c[4])
                /\ <<c[2], c[3], c[4]>> = <<"", "", <<>>>> =>
                      UNCHANGED <<store, commits>> /\ out'.msg = ""
       /\ Ran("manage_destinations.update") =>
          \A c \in UpdateDestinationCalls :
             manage_destinations(3, c[1], c[2], c[3], c[4]) =>
                /\ UNCHANGED <<pilots, flights, pilot_assignments>>
                /\ OtherDestinations(destinations', c[1]) = OtherDestinations(destinations, c[1])
                /\ \A r \in destinations : r.destination_id = c[1] =>
                      \E n \in destinations' :
                         /\ n.destination_id = c[1]
                         /\ c[2] = "" => n.city = r.city
                         /\ c[3] = "" => n.country = r.country
                         /\ c[4] = "" => n.airport_code = r.airport_code
                         /\ out'.msg = "Destination updated successfully" =>
                               /\ c[2] # "" => n.city = c[2]
                               /\ c[3] # "" => n.country = c[3]
                               /\ c[4] # "" => n.airport_code = c[4]
                /\ <<c[2], c[3], c[4]>> = <<"", "", "">> =>
                      UNCHANGED <<store, commits>> /\ out'.msg = ""]_vars
\* C10 witness: an update_pilot that typed the name only has just succeeded
\* on a pilot whose license id and years are those it was added with.
C10_Witness ==
    /\ out = Printed("manage_pilots.update", "Pilot updated successfully")
    /\ \E r \in pilots :
          r.name = "Q" /\ r.license_id = "L1" /\ r.years_experience = 1

\* the messages that report that no row has the key
NotFoundMessages ==
    {"Flight not found", "Pilot not found", "Destination not found",
     "Assignment not found"}

\* C11: update_flight, update_pilot, update_destination, delete_flight,
\* delete_pilot and delete_assignment called with a key that no row has (and
\* with something to write) print a not-found message, never a success
\* message, and leave every table unchanged.
C11_NotFoundReported ==
    [][/\ Ran("update_flight_info") =>
             \A c \in UpdateFlightCalls :
                /\ Matching(c[1]) = {}
                /\ c[2] = 2 \/ (c[2] = 1 /\ Reformatted[c[3]] # ValueError)
                /\ update_flight_info(c[1], c[2], c[3], c[4])
                => out'.msg \in NotFoundMessages /\ UNCHANGED store
       /\ Ran("delete_flight") =>
             \A n \in FlightNumbers :
                Matching(n) = {} /\ delete_flight(n)
                => out'.msg \in NotFoundMessages /\ UNCHANGED store
       /\ Ran("delete_pilot_assignment") =>
             \A a \in Ids :
                /\ a \notin {r.assignment_id : r \in pilot_assignments}
                /\ delete_pilot_assignment(a)
                => out'.msg \in NotFoundMessages /\ UNCHANGED store
       /\ Ran("manage_pilots.delete") =>
             \A p \in Ids :
                p \notin PilotIds /\ manage_pilots(4, p, "", "", <<>>)
                => out'.msg \in NotFoundMessages /\ UNCHANGED store
       /\ Ran("manage_pilots.update") =>
             \A c \in UpdatePilotCalls :
                /\ c[1] \notin PilotIds
                /\ <<c[2], c[3], c[4]>> # <<"", "", <<>>>>
                /\ c[4] = <<>> \/ ~IntFails(c[4])
                /\ manage_pilots(3, c[1], c[2], c[3], c[4])
                => out'.msg \in NotFoundMessages /\ UNCHANGED store
       /\ Ran("manage_destinations.update") =>
             \A c \in UpdateDestinationCalls :
                /\ c[1] \notin DestinationIds
                /\ <<c[2], c[3], c[4]>> # <<"", "", "">>
                /\ manage_destinations(3, c[1], c[2], c[3], c[4])
                => out'.msg \in NotFoundMessages /\ UNCHANGED store]_vars

\* C12: in every reachable state every flight's status is one of the seven
\* allowed values; a flight added by add_new_flight has status Scheduled; an
\* update_flight_info with a status outside the set never prints the success
\* message, prints the CHECK error when a flight has the number, and leaves
\* the flights as they were.
C12_StatusAllowed ==
    /\ [](\A f \in flights : f.status \in Statuses)
    /\ [][/\ Ran("add_new_flight") =>
               \A f \in flights' \ flights : f.status = "Scheduled"
          /\ Ran("update_flight_info") =>
               \A c \in UpdateFlightCalls :
                   c[2] = 2 /\ c[4] \notin Statuses
                   /\ update_flight_info(c[1], c[2], c[3], c[4])
                   => /\ out'.msg # "Flight updated successfully"
                      /\ Matching(c[1]) # {} =>
                            out'.msg = "Error updating flight: CHECK constraint failed: status IN (...)"
                      /\ flights' = flights]_vars

\* a flight exists and an update with a status outside the set was refused
C12_Witness ==
    /\ out = Printed("update_flight_info",
                     "Error updating flight: CHECK constraint failed: status IN (...)")
    /\ flights # {}
    /\ \A f \in flights : f.status = "Scheduled"

\* C13 as stated: when several flights share the number given to
\* delete_flight, exactly one of them is removed and the others remain.
C13_AsStated ==
    [][Ran("delete_flight") =>
         \A n \in FlightNumbers :
             Cardinality(Matching(n)) > 1 /\ delete_flight(n)
             => /\ Cardinality(flights \ flights') = 1
                /\ \E f \in flights' : f.flight_number = n]_vars

\* C13: delete_flight given a number that some flight has removes every
\* flight with that number, keeps every other flight as it was, adds none and
\* prints the success message.
C13_DeletesEveryMatch ==
    [][Ran("delete_flight") =>
         \A n \in FlightNumbers :
             Matching(n) # {} /\ delete_flight(n)
             => /\ \A f \in flights' : f.flight_number # n
                /\ \A f \in flights : f.flight_number # n => f \in flights'
                /\ flights' \subseteq flights
                /\ out'.msg = "Flight deleted successfully"]_vars

\* two flights added under one number, the sample data loaded with a third of
\* that number, and one delete_flight that removed all three
C13_Witness ==
    /\ out = Printed("delete_flight", "Flight deleted successfully")
    /\ commits = 4
    /\ {f.flight_id : f \in flights} = 4..17

\* C14: after get_destination_statistics the report has, for every
\* destination, a row whose total is the number of flights to it, whose
\* delayed and cancelled counts are the numbers of those flights with that
\* status and whose unique pilots is the number of distinct pilots assigned
\* to those flights, however many pilots a flight has.
C14_StatisticsCountFlights ==
    out.op = "get_destination_statistics" =>
        \A d \in destinations :
            LET F == {f \in flights : f.destination_id = d.destination_id}
            IN  \E r \in out.rows :
                    /\ r.city = d.city
                    /\ r.country = d.country
                    /\ r.total_flights = Cardinality(F)
                    /\ r.delayed_flights =
                           Cardinality({f \in F : f.status = "Delayed"})
                    /\ r.cancelled_flights =
                           Cardinality({f \in F : f.status = "Cancelled"})
                    /\ r.unique_pilots =
                           Cardinality({a.pilot_id : a \in
                               {a \in pilot_assignments :
                                   \E f \in F : f.flight_id = a.flight_id}})

\* C15: after get_pilot_flight_count the report has exactly one row for every
\* pilot of the store and no other row, and the row's flight_count is the
\* number of assignment rows of that pilot (0 for a pilot with none).
C15_OneRowPerPilot ==
    out.op = "get_pilot_flight_count" =>
        /\ \A p \in pilots :
               /\ Cardinality({r \in out.rows : r.pilot_id = p.pilot_id}) = 1
               /\ \A r \in out.rows :
                      r.pilot_id = p.pilot_id =>
                          /\ r.name = p.name
                          /\ r.license_id = p.license_id
                          /\ r.flight_count = Cardinality(
                                 {a \in pilot_assignments : a.pilot_id = p.pilot_id})
        /\ \A r \in out.rows : \E p \in pilots : p.pilot_id = r.pilot_id

\* a report over two pilots, one assigned once and one never
C15_Witness ==
    /\ out.op = "get_pilot_flight_count"
    /\ Cardinality(pilots) = 2
    /\ Cardinality(pilot_assignments) = 1
    /\ \E r \in out.rows : r.flight_count = 1
    /\ \E r \in out.rows : r.flight_count = 0

\* C16: between operations no connection is open: every connection an
\* operation opened, those of the lookups inside assign_pilot included, has
\* been closed when the operation returns, whatever path it took.
C16_NoOpenConnection == unclosed = 0

ConstraintErrors ==
    {"UNIQUE constraint failed: pilots.license_id",
     "UNIQUE constraint failed: destinations.city, destinations.airport_code",
     "UNIQUE constraint failed: pilot_assignments.flight_id, pilot_assignments.pilot_id",
     "CHECK constraint failed: status IN (...)",
     "CHECK constraint failed: origin_id <> destination_id"}

StoreLayerErrors ==
    {pre \o e : pre \in {"Error populating sample data: ", "Error adding flight: ",
                          "Error updating flight: ", "Error assigning pilot: ",
                          "Error managing pilots: ",
                          "Error managing destinations: "},
                e \in ConstraintErrors}

\* C17: an operation that prints a store-layer error leaves every table as it
\* was and commits nothing; populate_sample_data either inserts all of its
\* 15 pilots, 15 destinations, 15 flights and its assignments and commits, or
\* prints the error of the first failing insert and leaves every table as it
\* was before the call.
C17_NoPartialCommit ==
    [][/\ out'.msg \in StoreLayerErrors => UNCHANGED <<store, commits>>
       /\ Ran("populate_sample_data") /\ populate_sample_data
          => \/ /\ out'.msg = "Sample data populated successfully"
                /\ Cardinality(pilots') = Cardinality(pilots) + Len(SamplePilots)
                /\ Cardinality(destinations') =
                       Cardinality(destinations) + Len(SampleDestinations)
                /\ Cardinality(flights') = Cardinality(flights) + Len(SampleFlights)
                /\ Cardinality(pilot_assignments') =
                       Cardinality(pilot_assignments) + Len(SampleAssignments)
             \/ /\ out'.msg \in StoreLayerErrors
                /\ UNCHANGED <<store, commits>>]_vars

\* populate_sample_data failed at an assignment, after its pilots,
\* destinations and flights had been inserted, and none of them is there
C17_Witness ==
    /\ out = Printed("populate_sample_data",
                     "Error populating sample data: UNIQUE constraint failed: pilot_assignments.flight_id, pilot_assignments.pilot_id")
    /\ Cardinality(pilots) = 1
    /\ Cardinality(flights) = 1
    /\ Cardinality(pilot_assignments) = 1
    /\ destinations = {}

\* C18: a flight added by add_new_flight never gets a flight_id that an
\* existing assignment row refers to, so no assignment comes to refer to a
\* flight other than the one it was made for.
C18_ReferencedIdNotReused ==
    [][Ran("add_new_flight") =>
         \A f \in flights' \ flights :
             f.flight_id \notin {a.flight_id : a \in pilot_assignments}]_vars
====
